---- MODULE Spec2Model ----
(***************************************************************************)
(* Job lifecycle of the REST executor service (nf-server/src/app.py): the  *)
(* jobs table, the claim protocol (SELECT, then conditional UPDATE), the   *)
(* worker loop, the provisioning run (apply, background destroy), the      *)
(* post-run update, kill requests and startup reconciliation, for one or   *)
(* several service processes sharing the store.                            *)
(***************************************************************************)
EXTENDS Integers, Sequences, FiniteSets, TLC

VARIABLES
    jobs,       \* the jobs table: job_id -> row
    svc,        \* per service process: position in start_workers
    affected,   \* per service process: last return of reset_running_jobs_to_failed
    wpc,        \* per worker thread: position in worker_loop
    wjob,       \* per worker thread: local job_id (0 = none)
    wexit,      \* per worker thread: apply_proc.returncode (<<>> = apply not run)
    wret,       \* per worker thread: the tuple _run_job_sync returned
    hist,       \* per job: what has been done to it (observation only)
    call,       \* the request or function call under observation (<<>> = none)
    reply       \* what that call returned (<<>> = nothing yet)

vars == <<jobs, svc, affected, wpc, wjob, wexit, wret, hist, call, reply>>

-----------------------------------------------------------------------------
(* Bounds of the model *)

MaxJobs == 2

(* Deployment configuration read from the environment *)

UVICORN_WORKERS == 2
EXECUTOR_WORKERS == 1

-----------------------------------------------------------------------------
(* Values *)

JobIds == 1..MaxJobs
Procs == 1..UVICORN_WORKERS
Workers == Procs \X (0..(EXECUTOR_WORKERS - 1))
ProcOf(w) == w[1]
WorkersOf(p) == {w \in Workers : ProcOf(w) = p}

None == <<>>
Some(x) == <<x>>

\* exit codes of the apply subprocess tried: success, and a failure that is
\* not the 1 the run reports
ExitCodes == {0, 2}

\* what the stored metadata holds under "storage": a mapping (or nothing, which
\* the run replaces by an empty mapping), or a truthy value that is no mapping
StorageKinds == {"mapping", "scalar"}

StatusOf(j) == IF j \in DOMAIN jobs THEN jobs[j].status ELSE "absent"

NoRet == [rc |-> 0, out |-> <<>>, err |-> <<>>]

NoCall == [op |-> "none"]
NoReply == [kind |-> "no_reply"]

\* job ids a client may ask about: the stored ones and one never assigned
RequestIds == 1..(MaxJobs + 1)

NoHist ==
    [claims |-> 0, claimer |-> None, applies |-> 0, exit |-> None,
     applyDir |-> None, destroys |-> 0, destroyDir |-> None, destroy |-> "none",
     writes |-> 0, writer |-> None, stale |-> FALSE, lost |-> FALSE]

-----------------------------------------------------------------------------
(* Job store *)

\* variant: the row is inserted with the status pending
NewRowPending(created, storage) ==
    [status |-> "pending", returncode |-> None, stdout |-> None,
     stderr |-> None, pid |-> None, created_at |-> created,
     command |-> "bash .command.run", workdir |-> "/work", env |-> "{}",
     resources |-> "{}", storage |-> storage]

\* INSERT INTO jobs (job_id, status, command, workdir, env, metadata, resources)
\* (one request body is tried; of the metadata the row keeps the storage entry)
NewRow(created, storage) ==
    [status |-> "queued", returncode |-> None, stdout |-> None,
     stderr |-> None, pid |-> None, created_at |-> created,
     command |-> "bash .command.run", workdir |-> "/work", env |-> "{}",
     resources |-> "{}", storage |-> storage]

\* CURRENT_TIMESTAMP of the store: never before an earlier row's, and two
\* rows inserted within one second share it
Timestamps ==
    IF DOMAIN jobs = {} THEN {1}
    ELSE LET last == CHOOSE t \in {jobs[j].created_at : j \in DOMAIN jobs} :
                        \A k \in DOMAIN jobs : jobs[k].created_at <= t
         IN {last, last + 1}

\* variant: the rows left running are put back on the queue
ResetRunningJobsToQueued(tbl) ==
    [j \in DOMAIN tbl |->
        IF tbl[j].status = "running"
        THEN [tbl[j] EXCEPT !.status = "queued"]
        ELSE tbl[j]]

\* variant: every row that has no result yet is failed, queued rows too
ResetUnfinishedJobsToFailed(tbl) ==
    [j \in DOMAIN tbl |->
        IF tbl[j].status \in {"running", "queued"}
        THEN [tbl[j] EXCEPT !.status = "failed"]
        ELSE tbl[j]]

\* UPDATE jobs SET status = 'failed' WHERE status = 'running'
ResetRunningJobsToFailed(tbl) ==
    [j \in DOMAIN tbl |->
        IF tbl[j].status = "running"
        THEN [tbl[j] EXCEPT !.status = "failed"]
        ELSE tbl[j]]

ResetRowCount(tbl) == Cardinality({j \in DOMAIN tbl : tbl[j].status = "running"})

\* SELECT job_id FROM jobs WHERE status = 'queued' ORDER BY created_at LIMIT 1
\* (rows with the same created_at come in no specified order)
SelectCandidates(tbl) ==
    {j \in DOMAIN tbl :
        /\ tbl[j].status = "queued"
        /\ \A k \in DOMAIN tbl :
              tbl[k].status = "queued" => tbl[j].created_at <= tbl[k].created_at}

\* variant: WHERE job_id = %s, without the status predicate
ClaimUpdateMatchesAnyStatus(tbl, j) == j \in DOMAIN tbl

\* WHERE job_id = %s AND status = 'queued'
ClaimUpdateMatches(tbl, j) == j \in DOMAIN tbl /\ tbl[j].status = "queued"

\* UPDATE jobs SET status = 'running' WHERE job_id = %s AND status = 'queued'
ClaimUpdate(tbl, j) ==
    IF ClaimUpdateMatches(tbl, j)
    THEN [tbl EXCEPT ![j].status = "running"]
    ELSE tbl

ClaimRowCount(tbl, j) == IF ClaimUpdateMatches(tbl, j) THEN 1 ELSE 0

\* variant: the affected-row count is not looked at
ClaimResultIgnoringRowCount(rowcount, j) == j

\* if cur.rowcount == 0: return None; return job_id    (0 = None)
ClaimResult(rowcount, j) == IF rowcount = 0 THEN 0 ELSE j

\* variant: the result columns are written, the status column is not
UpdateJobAfterRunKeepsStatus(tbl, j, returncode, stdout, stderr, status) ==
    IF j \in DOMAIN tbl
    THEN [tbl EXCEPT ![j].returncode = Some(returncode),
                     ![j].stdout = Some(stdout),
                     ![j].stderr = Some(stderr)]
    ELSE tbl

\* variant: the result is written with REPLACE INTO, which makes a new row of
\* the columns given and leaves the others empty
UpdateJobAfterRunByReplace(tbl, j, returncode, stdout, stderr, status) ==
    IF j \in DOMAIN tbl
    THEN [tbl EXCEPT ![j].returncode = Some(returncode),
                     ![j].stdout = Some(stdout),
                     ![j].stderr = Some(stderr),
                     ![j].status = status,
                     ![j].command = "", ![j].workdir = "", ![j].env = "",
                     ![j].resources = "", ![j].storage = "mapping"]
    ELSE tbl

\* UPDATE jobs SET returncode, stdout, stderr, status WHERE job_id = %s
UpdateJobAfterRun(tbl, j, returncode, stdout, stderr, status) ==
    IF j \in DOMAIN tbl
    THEN [tbl EXCEPT ![j].returncode = Some(returncode),
                     ![j].stdout = Some(stdout),
                     ![j].stderr = Some(stderr),
                     ![j].status = status]
    ELSE tbl


-----------------------------------------------------------------------------
(* Provisioning run: _run_job_sync and build_tfvars *)

\* run_dir = run_base / f".bot{work_id:05d}-{job_id[:8]}"
RunDir(w, j) == <<w[2], j>>

\* storage = metadata.get("storage") or {}; storage.get("bucket") ...
\* a truthy value that is no mapping has no .get: AttributeError
BuildTfvarsRaises(row) == row.storage = "scalar"

\* if not script_path.exists(): return 1, "", err
ScriptMissingResult ==
    [rc |-> 1, out |-> <<>>, err |-> <<"[executor] autorun script not found">>]

\* variant: the annotation carries the reported code instead of the apply code
RunJobResultReportedCode(exit) ==
    [rc  |-> IF exit = 0 THEN 0 ELSE 1,
     out |-> <<"[executor] job cmd_script", "apply.stdout">>,
     err |-> IF exit = 0
             THEN <<"[executor] job cmd_script">>
             ELSE <<"[executor] job cmd_script",
                    "[executor] autorun apply failed (code", ToString(1), ")">>]

\* return (0 if success else 1), "".join(stdout_parts), "".join(stderr_parts)
RunJobResult(exit) ==
    [rc  |-> IF exit = 0 THEN 0 ELSE 1,
     out |-> <<"[executor] job cmd_script", "apply.stdout">>,
     err |-> IF exit = 0
             THEN <<"[executor] job cmd_script">>
             ELSE <<"[executor] job cmd_script",
                    "[executor] autorun apply failed (code", ToString(exit), ")">>]

\* variant: a job whose run failed is put back on the queue
StatusAfterRunRequeue(returncode) == IF returncode = 0 THEN "finished" ELSE "queued"

\* status = "finished" if returncode == 0 else "failed"
StatusAfterRun(returncode) == IF returncode = 0 THEN "finished" ELSE "failed"

-----------------------------------------------------------------------------
(* Kill request, executor service *)

\* variant: the job is marked killed whether or not a pid is stored
KillJobUpdateWithoutPid(tbl, j) == {[tbl EXCEPT ![j].status = "killed"]}

\* pid_raw = row.get("pid"); if pid_raw: os.kill(...); status 'killed',
\* or on an exception status 'failed' with the stderr extended
KillJobUpdate(tbl, j) ==
    IF tbl[j].pid = None
    THEN {tbl}
    ELSE {[tbl EXCEPT ![j].status = "killed"],
          [tbl EXCEPT ![j].status = "failed",
                      ![j].stderr =
                          Some((IF tbl[j].stderr = None THEN <<>>
                                ELSE tbl[j].stderr[1])
                               \o <<"[kill] exception">>)]}

-----------------------------------------------------------------------------
(* Initial state: an empty table, no service process started *)

Init ==
    /\ jobs = <<>>
    /\ svc = [p \in Procs |-> "down"]
    /\ affected = [p \in Procs |-> 0]
    /\ wpc = [w \in Workers |-> "off"]
    /\ wjob = [w \in Workers |-> 0]
    /\ wexit = [w \in Workers |-> None]
    /\ wret = [w \in Workers |-> NoRet]
    /\ hist = [j \in JobIds |-> NoHist]
    /\ call = NoCall
    /\ reply = NoReply

svcVars == <<svc, affected>>
apiVars == <<call, reply>>
workerVars == <<wpc, wjob, wexit, wret>>

AnyServiceUp == \E p \in Procs : svc[p] = "up"

\* a worker thread's locals at a given position of worker_loop
SetWorker(w, pc, job, exit, ret) ==
    /\ wpc' = [wpc EXCEPT ![w] = pc]
    /\ wjob' = [wjob EXCEPT ![w] = job]
    /\ wexit' = [wexit EXCEPT ![w] = exit]
    /\ wret' = [wret EXCEPT ![w] = ret]

-----------------------------------------------------------------------------
(* Service process: start_workers, and the death of the process *)

\* the process comes up and runs init_db
ServiceStart(p) ==
    /\ svc[p] = "down"
    /\ svc' = [svc EXCEPT ![p] = "starting"]
    /\ UNCHANGED <<jobs, affected, workerVars, hist>>
    /\ UNCHANGED apiVars

\* await asyncio.to_thread(reset_running_jobs_to_failed)
Reconcile(p) ==
    /\ svc[p] = "starting"
    /\ jobs' = ResetRunningJobsToFailed(jobs)
    /\ affected' = [affected EXCEPT ![p] = ResetRowCount(jobs)]
    /\ svc' = [svc EXCEPT ![p] = "reconciled"]
    /\ UNCHANGED <<workerVars, hist>>
    /\ UNCHANGED apiVars

\* variant: the threads are created before the reconciliation has run
StartWorkersBeforeReconcile(p) == svc[p] = "starting"

\* the threads are created after both awaits of start_workers have returned
StartWorkersReady(p) == svc[p] = "reconciled"

\* for i in range(worker_count): threading.Thread(target=worker_loop).start()
StartWorkers(p) ==
    /\ StartWorkersReady(p)
    /\ svc' = [svc EXCEPT ![p] = "up"]
    /\ affected' = [affected EXCEPT ![p] = 0]
    /\ wpc' = [w \in Workers |-> IF ProcOf(w) = p THEN "claim" ELSE wpc[w]]
    /\ UNCHANGED <<jobs, wjob, wexit, wret, hist>>
    /\ UNCHANGED apiVars

\* the process dies; its daemon threads die with it, the store keeps its rows
\* (hist: the running jobs its workers had claimed are now nobody's)
Crash(p) ==
    /\ svc[p] # "down"
    /\ svc' = [svc EXCEPT ![p] = "down"]
    /\ affected' = [affected EXCEPT ![p] = 0]
    /\ wpc' = [w \in Workers |-> IF ProcOf(w) = p THEN "off" ELSE wpc[w]]
    /\ wjob' = [w \in Workers |-> IF ProcOf(w) = p THEN 0 ELSE wjob[w]]
    /\ wexit' = [w \in Workers |-> IF ProcOf(w) = p THEN None ELSE wexit[w]]
    /\ wret' = [w \in Workers |-> IF ProcOf(w) = p THEN NoRet ELSE wret[w]]
    /\ hist' = [j \in JobIds |->
                   IF /\ StatusOf(j) = "running"
                      /\ hist[j].claimer # None
                      /\ ProcOf(hist[j].claimer) = p
                   THEN [hist[j] EXCEPT !.stale = TRUE]
                   ELSE hist[j]]
    /\ UNCHANGED jobs
    /\ UNCHANGED apiVars

-----------------------------------------------------------------------------
(* Lifecycle API *)

\* submit_job: job_id = str(uuid.uuid4()); _insert_job(job_id, submit)
Submit(storage) ==
    /\ AnyServiceUp
    /\ Cardinality(DOMAIN jobs) < MaxJobs
    /\ \E t \in Timestamps :
          jobs' = jobs @@ ((Cardinality(DOMAIN jobs) + 1) :> NewRow(t, storage))
    /\ UNCHANGED <<svcVars, workerVars, hist>>
    /\ UNCHANGED apiVars

\* kill_job on a stored job
KillJob(j) ==
    /\ AnyServiceUp
    /\ j \in DOMAIN jobs
    /\ jobs' \in KillJobUpdate(jobs, j)
    /\ UNCHANGED <<svcVars, workerVars, hist>>
    /\ UNCHANGED apiVars

-----------------------------------------------------------------------------
(* Lifecycle API as a client sees it: the request and the response *)

\* raise HTTPException(status_code=404, detail="Job not found")
NotFound == [kind |-> "error", code |-> 404]

\* cur.execute("SELECT * FROM jobs WHERE job_id = %s"); return cur.fetchone()
FetchJob(tbl, j) == IF j \in DOMAIN tbl THEN Some(tbl[j]) ELSE None

\* the statuses for which _get_job_status passes the stored stdout and stderr
OutputStatuses == {"finished", "failed", "killed"}

\* the JobStatus built from a row: status = row.get("status") or "queued";
\* stdout and stderr only for the statuses in shown
JobStatusOf(j, row, shown) ==
    LET status == IF row.status = "" THEN "queued" ELSE row.status
    IN [kind |-> "status", job_id |-> j, status |-> status,
        returncode |-> row.returncode,
        stdout |-> IF status \in shown THEN row.stdout ELSE None,
        stderr |-> IF status \in shown THEN row.stderr ELSE None]

\* variant: a missing row is read as an empty one
GetJobStatusOfMissingRow(tbl, j) ==
    IF FetchJob(tbl, j) = None
    THEN [kind |-> "status", job_id |-> j, status |-> "queued",
          returncode |-> None, stdout |-> None, stderr |-> None]
    ELSE JobStatusOf(j, FetchJob(tbl, j)[1], OutputStatuses)

\* _get_job_status: if not row: raise 404; else the JobStatus of the row
GetJobStatus(tbl, j) ==
    IF FetchJob(tbl, j) = None
    THEN NotFound
    ELSE JobStatusOf(j, FetchJob(tbl, j)[1], OutputStatuses)

\* return JobStatus(job_id=job_id, status="queued", returncode=None, ...)
SubmitReply(j) ==
    [kind |-> "status", job_id |-> j, status |-> "queued",
     returncode |-> None, stdout |-> None, stderr |-> None]

\* POST /jobs
SubmitJobCall(storage) ==
    /\ AnyServiceUp
    /\ Cardinality(DOMAIN jobs) < MaxJobs
    /\ LET job_id == Cardinality(DOMAIN jobs) + 1 IN
       /\ \E t \in Timestamps : jobs' = jobs @@ (job_id :> NewRow(t, storage))
       /\ call' = [op |-> "submit", service |-> "executor", arg |-> storage]
       /\ reply' = SubmitReply(job_id)
    /\ UNCHANGED <<svcVars, workerVars, hist>>

\* GET /jobs/{job_id}
GetJobCall(j) ==
    /\ AnyServiceUp
    /\ call' = [op |-> "get_status", service |-> "executor", arg |-> j]
    /\ reply' = GetJobStatus(jobs, j)
    /\ UNCHANGED <<jobs, svcVars, workerVars, hist>>

\* POST /jobs/{job_id}/kill: 404 for no row; the kill; then _get_job_status
\* (the final read is taken in the same step as the kill)
KillJobCall(j) ==
    /\ AnyServiceUp
    /\ IF FetchJob(jobs, j) = None
       THEN jobs' = jobs /\ reply' = NotFound
       ELSE jobs' \in KillJobUpdate(jobs, j) /\ reply' = GetJobStatus(jobs', j)
    /\ call' = [op |-> "kill", service |-> "executor", arg |-> j]
    /\ UNCHANGED <<svcVars, workerVars, hist>>

-----------------------------------------------------------------------------
(* Gateway service (v2/src/gateway/app.py) *)

\* variant: the output is hidden for queued and running rows only
GatewayOutputStatusesButQueuedRunning ==
    {"finished", "failed", "killed", "cleaned", "killing"}

\* the statuses for which the gateway passes the stored stdout and stderr
GatewayOutputStatuses == {"finished", "failed", "killed", "cleaned"}

\* _get_job_status of the gateway
GatewayGetJobStatus(tbl, j) ==
    IF FetchJob(tbl, j) = None
    THEN NotFound
    ELSE JobStatusOf(j, FetchJob(tbl, j)[1], GatewayOutputStatuses)

\* the gateway runs as one process
GatewayProc == 1

GatewayUp == svc[GatewayProc] = "up"

\* a worker outside the gateway claims a queued job as the claim arbiter
\* does: queued to running, for one poller
AgentClaim(j) ==
    /\ ClaimUpdateMatches(jobs, j)
    /\ jobs' = ClaimUpdate(jobs, j)
    /\ hist' = [hist EXCEPT ![j].claims = @ + 1]
    /\ UNCHANGED <<svcVars, workerVars, apiVars>>

\* that worker records the result of the job it claimed
AgentStore(j, e) ==
    /\ hist[j].claims = 1 /\ hist[j].writes = 0
    /\ jobs' = UpdateJobAfterRun(jobs, j, RunJobResult(e).rc, RunJobResult(e).out,
                                 RunJobResult(e).err,
                                 StatusAfterRun(RunJobResult(e).rc))
    /\ hist' = [hist EXCEPT ![j].writes = @ + 1, ![j].exit = Some(e)]
    /\ UNCHANGED <<svcVars, workerVars, apiVars>>

\* start_workers of the gateway: await asyncio.to_thread(init_db)
GatewayStart ==
    /\ svc[GatewayProc] = "down"
    /\ svc' = [svc EXCEPT ![GatewayProc] = "starting"]
    /\ UNCHANGED <<jobs, affected, workerVars, hist, apiVars>>

\* await asyncio.to_thread(reset_running_jobs_to_failed); the gateway is ready
GatewayReconcile ==
    /\ svc[GatewayProc] = "starting"
    /\ jobs' = ResetRunningJobsToFailed(jobs)
    /\ svc' = [svc EXCEPT ![GatewayProc] = "up"]
    /\ UNCHANGED <<affected, workerVars, hist, apiVars>>

\* the gateway process ends
GatewayStop ==
    /\ svc[GatewayProc] # "down"
    /\ svc' = [svc EXCEPT ![GatewayProc] = "down"]
    /\ UNCHANGED <<jobs, affected, workerVars, hist, apiVars>>

\* POST /jobs of the gateway
GatewaySubmitCall(storage) ==
    /\ GatewayUp
    /\ Cardinality(DOMAIN jobs) < MaxJobs
    /\ LET job_id == Cardinality(DOMAIN jobs) + 1 IN
       /\ \E t \in Timestamps : jobs' = jobs @@ (job_id :> NewRow(t, storage))
       /\ call' = [op |-> "submit", service |-> "gateway", arg |-> storage]
       /\ reply' = SubmitReply(job_id)
    /\ UNCHANGED <<svcVars, workerVars, hist>>

\* GET /jobs/{job_id} of the gateway
GatewayGetJobCall(j) ==
    /\ GatewayUp
    /\ call' = [op |-> "get_status", service |-> "gateway", arg |-> j]
    /\ reply' = GatewayGetJobStatus(jobs, j)
    /\ UNCHANGED <<jobs, svcVars, workerVars, hist>>

\* variant: the UPDATE has no WHERE clause
GatewayKillUpdateAllRows(tbl, j) ==
    [k \in DOMAIN tbl |-> [tbl[k] EXCEPT !.status = "killing"]]

\* UPDATE jobs SET status = 'killing' WHERE job_id = %s
GatewayKillUpdate(tbl, j) == [tbl EXCEPT ![j].status = "killing"]

\* POST /jobs/{job_id}/kill of the gateway: 404 for no row; the UPDATE; then
\* _get_job_status (the final read is taken in the same step as the UPDATE)
GatewayKillJobCall(j) ==
    /\ GatewayUp
    /\ IF FetchJob(jobs, j) = None
       THEN jobs' = jobs /\ reply' = NotFound
       ELSE /\ jobs' = GatewayKillUpdate(jobs, j)
            /\ reply' = GatewayGetJobStatus(jobs', j)
    /\ call' = [op |-> "kill", service |-> "gateway", arg |-> j]
    /\ UNCHANGED <<svcVars, workerVars, hist>>

GatewayNext ==
    \/ \E j \in JobIds : AgentClaim(j)
    \/ \E j \in JobIds : \E e \in ExitCodes : AgentStore(j, e)
    \/ GatewayStart
    \/ GatewayReconcile
    \/ GatewayStop
    \/ \E s \in StorageKinds : GatewaySubmitCall(s)
    \/ \E j \in RequestIds : GatewayGetJobCall(j)
    \/ \E j \in RequestIds : GatewayKillJobCall(j)

GatewaySpec == Init /\ [][GatewayNext]_vars

-----------------------------------------------------------------------------
(* Resource requests: ResourceSpec and normalize_resources, both services *)

\* JSON values, and the mark of a key that is not in a mapping
Null == [type |-> "null", text |-> ""]
Absent == [type |-> "absent", text |-> ""]
IntVal(t) == [type |-> "int", text |-> t]
StrVal(t) == [type |-> "str", text |-> t]

\* the strings that int() and the int fields of a model accept
NumericTexts == {"0", "1", "2", "3", "4", "8", "50", "100"}

\* the keys of a resource mapping that are told apart
ResourceKeys ==
    {"cpu", "ram", "gpu", "accelerator", "acceleratornum", "shape",
     "gpushape", "acceleratorshape", "disk", "disk_size"}

NoResources == [kind |-> "none"]
ValidationError == [kind |-> "error", code |-> 422]

\* data.get(key): None for a missing key
Get(data, k) ==
    IF k \in DOMAIN data /\ data[k] # Absent THEN data[k] ELSE Null

\* get_first: the first key with a value that is not None
GetFirst(data, keys) ==
    LET hits == {i \in DOMAIN keys : Get(data, keys[i]) # Null}
    IN IF hits = {} THEN Null
       ELSE Get(data, keys[CHOOSE i \in hits : \A m \in hits : i <= m])

\* an Optional[int] field: an int, or a string of digits, which becomes an int
ValidInt(v) ==
    v.type \in {"null", "absent", "int"}
       \/ (v.type = "str" /\ v.text \in NumericTexts)

AsInt(v) == IF v.type = "str" THEN IntVal(v.text) ELSE v

\* an Optional[str] field takes no number
ValidStr(v) == v.type \in {"null", "absent", "str"}

\* a model with the int fields given, the field shape, and extra = "allow":
\* fields are validated and converted, a missing field gets its default,
\* other keys are kept as they are
ModelOf(intFields, default, data) ==
    IF (\A k \in intFields : ValidInt(data[k])) /\ ValidStr(data["shape"])
    THEN [kind |-> "spec",
          data |-> [k \in ResourceKeys |->
                      IF k \in intFields
                      THEN (IF data[k] = Absent THEN default[k] ELSE AsInt(data[k]))
                      ELSE IF k = "shape"
                      THEN (IF data[k] = Absent THEN Null ELSE data[k])
                      ELSE data[k]]]
    ELSE ValidationError

\* class ResourceSpec of the executor service
ResourceSpec(data) ==
    ModelOf({"cpu", "ram", "gpu", "disk"},
            [k \in {"cpu", "ram", "gpu", "disk"} |-> Null], data)

\* class ResourceSpec of the gateway: accelerator: Optional[int] = 0
GatewayResourceSpec(data) ==
    ModelOf({"cpu", "ram", "accelerator", "disk"},
            [k \in {"cpu", "ram", "accelerator", "disk"} |->
                IF k = "accelerator" THEN IntVal("0") ELSE Null], data)

\* the keyword arguments of a constructor call: the other keys are not passed
Kwargs(given) ==
    [k \in ResourceKeys |-> IF k \in DOMAIN given THEN given[k] ELSE Absent]

\* variant: the list of aliases without the canonical name
DiskAliasKeys ==
    <<"disk_size", "disk_gb", "image_boot_size", "boot_disk", "bootdisk",
      "bootdisk_size">>

DiskKeys ==
    <<"disk", "disk_size", "disk_gb", "image_boot_size", "boot_disk",
      "bootdisk", "bootdisk_size">>

ShapeKeys == <<"shape", "gpushape", "acceleratorshape", "accelerator_shape">>

GatewayShapeKeys ==
    <<"acceleratorShape", "acceleratorshape", "accelerator_shape", "shape",
      "gpushape">>

\* variant: the count is taken from the alias only
GpuOfAliasOnly(data) == Get(data, "acceleratornum")

\* gpu = data.get("gpu") if data.get("gpu") is not None else data.get("acceleratornum")
GpuOf(data) ==
    IF Get(data, "gpu") # Null THEN Get(data, "gpu")
    ELSE Get(data, "acceleratornum")

\* normalize_resources of the executor service (a ResourceSpec or a dict)
NormalizeResources(resources) ==
    IF resources.kind = "none" THEN NoResources
    ELSE LET data == resources.data
         IN ResourceSpec(Kwargs(
               [cpu |-> Get(data, "cpu"), ram |-> Get(data, "ram"),
                gpu |-> GpuOf(data), shape |-> GetFirst(data, ShapeKeys),
                disk |-> GetFirst(data, DiskKeys)]))

\* accelerator, else gpu, else acceleratornum; int(...) or 0, also when int raises
AcceleratorOf(data) ==
    LET raw == IF Get(data, "accelerator") # Null THEN Get(data, "accelerator")
               ELSE IF Get(data, "gpu") # Null THEN Get(data, "gpu")
               ELSE Get(data, "acceleratornum")
    IN IF raw = Null \/ ~ValidInt(raw) THEN IntVal("0") ELSE AsInt(raw)

\* normalize_resources of the gateway
GatewayNormalizeResources(resources) ==
    IF resources.kind = "none" THEN NoResources
    ELSE LET data == resources.data
         IN GatewayResourceSpec(Kwargs(
               [cpu |-> Get(data, "cpu"), ram |-> Get(data, "ram"),
                accelerator |-> AcceleratorOf(data),
                shape |-> GetFirst(data, GatewayShapeKeys),
                disk |-> GetFirst(data, DiskKeys)]))

-----------------------------------------------------------------------------
(* Functions applied to given inputs: the inputs are in call, the value in
   reply; no service is running *)

FunctionCall(inputs) ==
    /\ jobs = <<>>
    /\ svc = [p \in Procs |-> "down"]
    /\ affected = [p \in Procs |-> 0]
    /\ wpc = [w \in Workers |-> "off"]
    /\ wjob = [w \in Workers |-> 0]
    /\ wexit = [w \in Workers |-> None]
    /\ wret = [w \in Workers |-> NoRet]
    /\ hist = [j \in JobIds |-> NoHist]
    /\ call \in inputs
    /\ reply = NoReply

Return(value) ==
    /\ reply = NoReply
    /\ reply' = value
    /\ UNCHANGED <<jobs, svcVars, workerVars, hist, call>>

-----------------------------------------------------------------------------
(* Memory sizes: normalize_ram_gb of the executor service.  An integer v is
   held as hi * 2^30 + lo with 0 <= lo < 2^30, so that byte counts beyond
   2^31 and the rounding of float() beyond 2^53 are computed exactly. *)

GiB == 1073741824
RamGbLimit == 1000000
FloatBits == 53

RECURSIVE BitLen(_)
BitLen(n) == IF n = 0 THEN 0 ELSE 1 + BitLen(n \div 2)

\* float(value) of a positive integer: the nearest value with FloatBits
\* significant bits, a tie going to the even one
FloatOfInt(v) ==
    LET k == IF BitLen(v.hi) + 30 > FloatBits
             THEN BitLen(v.hi) + 30 - FloatBits ELSE 0
        q == 2 ^ k
        r == v.lo % q
        down == v.lo - r
        roundUp == 2 * r > q \/ (2 * r = q /\ (down \div q) % 2 = 1)
        lo == IF roundUp THEN down + q ELSE down
    IN IF lo = GiB THEN [hi |-> v.hi + 1, lo |-> 0] ELSE [hi |-> v.hi, lo |-> lo]

\* normalize_ram_gb(value): None, or an int
NormalizeRamGb(value) ==
    IF value.type # "int" THEN [kind |-> "none"]
    ELSE IF value.hi < 0 \/ (value.hi = 0 /\ value.lo = 0) THEN [kind |-> "none"]
    ELSE LET ram == FloatOfInt(value)
         IN IF ram.hi > 0 \/ ram.lo > RamGbLimit
            THEN [kind |-> "int",
                  value |-> ram.hi + (IF ram.lo > 0 THEN 1 ELSE 0)]
            ELSE [kind |-> "int", value |-> ram.lo]

\* the memory values tried: none, a string that is no number, and integers
\* around zero, the GB limit, 2^30, 2^31, 2^53 and 2^54
RamValues ==
    {[type |-> "null"], [type |-> "str"]} \cup
    [type : {"int"},
     hi : {-1, 0, 1, 2, 3, 8388607, 8388608, 16777216},
     lo : {0, 1, 2, 3, 4, 6, RamGbLimit, RamGbLimit + 1, GiB - 1}]

RamInputs == [op : {"normalize_ram_gb"}, arg : RamValues]

ApplyNormalizeRamGb ==
    /\ call.op = "normalize_ram_gb"
    /\ Return(NormalizeRamGb(call.arg))

RamSpec == FunctionCall(RamInputs) /\ [][ApplyNormalizeRamGb]_vars

-----------------------------------------------------------------------------
(* Generated command script: build_tfvars *)

\* x or default: None, "" and 0 give the default
OrElse(v, default) ==
    IF v \in {Null, Absent, StrVal(""), IntVal("0")} THEN default ELSE v

\* str(x) of a string or an int
Str(v) == v.text

\* one line of the script: a command and its two operands (<<>> = none);
\* a local path is <<path>>, a remote one <<"s3:/", path>>
Line(op, a, b) == [op |-> op, a |-> a, b |-> b]

\* variant: one of endpoint and bucket is enough
HasObjectStorageEither(s3_endpoint, s3_bucket) ==
    s3_endpoint # "" \/ s3_bucket # ""

\* if s3_endpoint != "" and s3_bucket != "":
HasObjectStorage(s3_endpoint, s3_bucket) ==
    s3_endpoint # "" /\ s3_bucket # ""

\* cmd_script, without the lines that only export variables
CmdScript(row) ==
    LET s3_bucket == Str(OrElse(row.bucket, StrVal("")))
        s3_workdir == Str(OrElse(row.s3_workdir, OrElse(row.workdir, StrVal(""))))
        s3_endpoint == Str(OrElse(row.endpoint, StrVal("")))
        nxf_command == Str(OrElse(row.command, StrVal("bash .command.run")))
        nxf_workdir == Str(OrElse(row.workdir, StrVal("/opt/nxf-work")))
    IN IF HasObjectStorage(s3_endpoint, s3_bucket)
       THEN << Line("mkdir", <<s3_workdir>>, <<>>),
               Line("cd", <<s3_workdir>>, <<>>),
               Line("sync", <<"s3:/", s3_workdir>>, <<s3_workdir>>),
               Line("echo", <<nxf_command>>, <<>>),
               Line("eval", <<nxf_command>>, <<>>),
               Line("write", <<"ok">>, <<"ok.txt">>),
               Line("sync", <<s3_workdir>>, <<"s3:/", s3_workdir>>),
               Line("write", <<"done">>, <<"/var/run/bootstrap.done">>) >>
       ELSE << Line("cd", <<nxf_workdir>>, <<>>),
               Line("echo", <<nxf_command>>, <<>>),
               Line("eval", <<nxf_command>>, <<>>),
               Line("write", <<"ok">>, <<"ok.txt">>),
               Line("write", <<"done">>, <<"/var/run/bootstrap.done">>) >>

\* the defaults of the process: os.getenv(name, default)
DEFAULT_SHAPE == "VM.Standard.E3.Flex"
DEFAULT_OCPU == 1
DEFAULT_MEMORY_IN_GB == 2
DEFAULT_BOOTDISK_IN_GB == 1024

\* the number a decimal text stands for, for the integers stored in the rows
\* tried (2147483649 is 2 * 2^30 + 1 and is held in two parts)
IntOf(text) ==
    CASE text = "-1" -> -1 [] text = "0" -> 0 [] text = "1" -> 1
      [] text = "2" -> 2 [] text = "3" -> 3 [] text = "4" -> 4
      [] text = "8" -> 8 [] text = "50" -> 50 [] text = "100" -> 100
      [] text = "1000001" -> 1000001

WideIntOf(text) ==
    IF text = "2147483649" THEN [type |-> "int", hi |-> 2, lo |-> 1]
    ELSE [type |-> "int", hi |-> IntOf(text) \div GiB, lo |-> IntOf(text) % GiB]

\* resources_obj: None when the column is empty, is no JSON, is JSON that
\* normalize_resources cannot take as a mapping, or has a field that
\* ResourceSpec refuses (the exception is logged)
ResourcesObj(raw) ==
    IF raw.kind # "dict" THEN NoResources
    ELSE LET normalized == NormalizeResources(raw)
         IN IF normalized.kind = "error" THEN NoResources ELSE normalized

\* as_int(val, fallback): int(val), the fallback when int raises (val is None)
as_int(val, fallback) == IF val.type = "int" THEN IntOf(val.text) ELSE fallback

\* ram = as_int(normalize_ram_gb(resources_obj.ram), ram_default)
RamOf(val) ==
    LET ram_norm == IF val.type = "int" THEN NormalizeRamGb(WideIntOf(val.text))
                    ELSE NormalizeRamGb([type |-> "null"])
    IN IF ram_norm.kind = "int" THEN ram_norm.value ELSE DEFAULT_MEMORY_IN_GB

\* build_tfvars(job_id, row, name): the payload (its shape, ocpus, memory_gbs,
\* image_boot_size and cmd_script), or the AttributeError of a storage entry
\* that is no mapping
BuildTfvars(row) ==
    IF BuildTfvarsRaises(row)
    THEN [kind |-> "error", code |-> 500]
    ELSE LET resources_obj == ResourcesObj(row.resources)
             given == resources_obj.kind = "spec"
         IN [kind |-> "tfvars",
             shape |-> IF given
                       THEN Str(OrElse(resources_obj.data["shape"],
                                       StrVal(DEFAULT_SHAPE)))
                       ELSE DEFAULT_SHAPE,
             ocpus |-> IF given THEN as_int(resources_obj.data["cpu"], DEFAULT_OCPU)
                       ELSE DEFAULT_OCPU,
             memory_gbs |-> IF given THEN RamOf(resources_obj.data["ram"])
                            ELSE DEFAULT_MEMORY_IN_GB,
             image_boot_size |->
                 IF given THEN as_int(resources_obj.data["disk"],
                                      DEFAULT_BOOTDISK_IN_GB)
                 ELSE DEFAULT_BOOTDISK_IN_GB,
             cmd_script |-> CmdScript(row)]

\* the resources column of the rows tried: empty, text that is no JSON, JSON
\* that is no mapping, and mappings with missing, valid and refused fields
StoredResourceColumns ==
    {[kind |-> "null"], [kind |-> "text"], [kind |-> "scalar"]} \cup
    [kind : {"dict"},
     data : {Kwargs(d) : d \in
               [cpu : {Absent, Null, IntVal("0"), IntVal("4"), StrVal("many")},
                ram : {Absent, IntVal("-1"), IntVal("0"), IntVal("8"),
                       StrVal("8"), StrVal("many"), IntVal("1000001"),
                       IntVal("2147483649")},
                shape : {Absent, StrVal(""), StrVal("A")},
                disk : {Absent, IntVal("50")},
                disk_size : {Absent, StrVal("100")}]}]

\* the rows tried: the storage entry of the metadata, workdir, command and
\* the resources column
TfvarsRows ==
    [storage : {"mapping"},
     endpoint : {Absent, StrVal(""), StrVal("http://minio:9000")},
     bucket : {Absent, StrVal(""), StrVal("bkt"), IntVal("7")},
     s3_workdir : {Absent, StrVal("/bkt/work")},
     workdir : {StrVal(""), StrVal("/work")},
     command : {StrVal(""), StrVal("echo hi")},
     resources : {[kind |-> "null"]}]
    \cup
    [storage : {"mapping", "scalar"}, endpoint : {Absent}, bucket : {Absent},
     s3_workdir : {Absent}, workdir : {StrVal("/work")},
     command : {StrVal("echo hi")},
     resources : StoredResourceColumns]

TfvarsInputs == [op : {"build_tfvars"}, arg : TfvarsRows]

ApplyBuildTfvars ==
    /\ call.op = "build_tfvars"
    /\ Return(BuildTfvars(call.arg))

TfvarsSpec == FunctionCall(TfvarsInputs) /\ [][ApplyBuildTfvars]_vars

-----------------------------------------------------------------------------
(* Resource requests through submit and get_status *)

\* the request body's resources become a ResourceSpec, or the request is refused
ParseResources(service, body) ==
    IF body.kind = "none" THEN NoResources
    ELSE IF service = "executor" THEN ResourceSpec(body.data)
    ELSE GatewayResourceSpec(body.data)

NormalizeFor(service, resources) ==
    IF service = "executor" THEN NormalizeResources(resources)
    ELSE GatewayNormalizeResources(resources)

EmptyDict == [k \in ResourceKeys |-> Absent]

\* json.dumps(submit.resources.dict() if submit.resources else {})
StoredResources(resources) ==
    IF resources.kind = "none" THEN EmptyDict ELSE resources.data

\* resources_dict = json.loads(raw_resources);
\* normalize_resources(resources_dict) if resources_dict else None
StatusResources(service, raw) ==
    IF raw = EmptyDict THEN NoResources
    ELSE NormalizeFor(service, [kind |-> "dict", data |-> raw])

\* the resources of the request bodies tried
ResourceBodies ==
    {NoResources} \cup
    [kind : {"json"},
     data : [cpu : {Absent, IntVal("2")},
             ram : {Absent, StrVal("8")},
             gpu : {Absent, IntVal("1")},
             accelerator : {Absent, Null, IntVal("1")},
             acceleratornum : {Absent, IntVal("2"), StrVal("3"), StrVal("many")},
             shape : {Absent, StrVal("A")},
             gpushape : {Absent, StrVal("B")},
             acceleratorshape : {Absent, StrVal("C"), IntVal("5")},
             disk : {Absent, IntVal("50")},
             disk_size : {Absent, StrVal("100")}]]

ResourceInputs ==
    [op : {"submit"}, service : {"executor", "gateway"}, arg : ResourceBodies]

\* submit_job: the body is parsed, normalized and stored
SubmitResources ==
    /\ call.op = "submit" /\ reply = NoReply
    /\ LET parsed == ParseResources(call.service, call.arg)
           normalized == NormalizeFor(call.service, parsed)
       IN reply' =
             IF parsed.kind = "error" THEN ValidationError
             ELSE IF normalized.kind = "error" THEN [kind |-> "error", code |-> 500]
             ELSE [kind |-> "submitted", resources |-> normalized,
                   stored |-> StoredResources(normalized)]
    /\ UNCHANGED <<jobs, svcVars, workerVars, hist, call>>

\* _get_job_status: the resources of the response, from the stored column
GetStatusResources ==
    /\ reply.kind = "submitted"
    /\ reply' = [kind |-> "resources",
                 resources |-> StatusResources(call.service, reply.stored)]
    /\ UNCHANGED <<jobs, svcVars, workerVars, hist, call>>

\* normalize_resources applied to its own result, passed as the ResourceSpec
\* (form "spec") or as the dict read back from the store (form "dict")
NormalizeAgain(form) ==
    /\ reply.kind = "submitted"
    /\ reply' =
          [kind |-> "renormalized", form |-> form,
           resources |->
              IF reply.resources.kind = "none"
              THEN NormalizeFor(call.service, NoResources)
              ELSE NormalizeFor(call.service,
                                [kind |-> form, data |-> reply.resources.data])]
    /\ UNCHANGED <<jobs, svcVars, workerVars, hist, call>>

ResourcesSpec ==
    /\ FunctionCall(ResourceInputs)
    /\ [][\/ SubmitResources
          \/ GetStatusResources
          \/ \E form \in {"spec", "dict"} : NormalizeAgain(form)]_vars

\* what the status, returncode, stdout and stderr columns of a row may hold
StoredStatuses ==
    {"", "queued", "running", "killing", "finished", "failed", "killed", "cleaned"}

StoredRows ==
    [status : StoredStatuses, returncode : {None, Some(0), Some(1)},
     stdout : {None, Some(<<"apply.stdout">>)},
     stderr : {None, Some(<<"apply.stderr">>)},
     pid : {None}, created_at : {1}, storage : {"mapping"}]

StatusInputs ==
    [op : {"get_status"}, service : {"executor", "gateway"},
     arg : 1..2, table : {1 :> row : row \in StoredRows}]

ApplyGetJobStatus ==
    /\ call.op = "get_status" /\ call.service = "executor"
    /\ Return(GetJobStatus(call.table, call.arg))

ApplyGatewayGetJobStatus ==
    /\ call.op = "get_status" /\ call.service = "gateway"
    /\ Return(GatewayGetJobStatus(call.table, call.arg))

StatusSpec ==
    /\ FunctionCall(StatusInputs)
    /\ [][ApplyGetJobStatus \/ ApplyGatewayGetJobStatus]_vars

-----------------------------------------------------------------------------
(* Accelerator count of the gateway: normalize_resources on a parsed submit
   payload (submit_job) and on a plain dict (_get_job_status) *)

AcceleratorBodies ==
    [accelerator : {Absent, Null, IntVal("1"), StrVal("2"), StrVal("many")},
     gpu : {Absent, Null, IntVal("2"), StrVal("many")},
     acceleratornum : {Absent, IntVal("3"), StrVal("4"), StrVal("many")}]

AcceleratorInputs ==
    [op : {"normalize_resources"}, service : {"gateway"},
     form : {"payload", "dict"}, arg : AcceleratorBodies]

\* form "payload": resources: Optional[ResourceSpec] of JobSubmit is parsed,
\* then normalize_resources(submit.resources); form "dict": the call on the dict
ApplyGatewayNormalize ==
    /\ call.op = "normalize_resources"
    /\ LET data == Kwargs(call.arg)
           parsed == GatewayResourceSpec(data)
       IN Return(IF call.form = "dict"
                 THEN GatewayNormalizeResources([kind |-> "dict", data |-> data])
                 ELSE IF parsed.kind = "error" THEN ValidationError
                 ELSE GatewayNormalizeResources(parsed))

AcceleratorSpec ==
    FunctionCall(AcceleratorInputs) /\ [][ApplyGatewayNormalize]_vars

-----------------------------------------------------------------------------
(* Metadata of a submitted job: _insert_job and _get_job_status, both services *)

\* the fields of StorageConfig that are told apart
StorageFields == {"endpoint", "bucket"}

\* a JSON object as a value of a mapping
MapVal(fields) == [type |-> "map", fields |-> fields]

NoStorage == [kind |-> "none"]

\* submit.storage.dict(exclude_none=True)
DictExcludeNone(config) ==
    MapVal([k \in StorageFields |->
               IF config.fields[k] = Null THEN Absent ELSE config.fields[k]])

\* metadata = dict(submit.metadata or {});
\* if submit.storage: metadata.setdefault("storage", submit.storage.dict(...))
MergeStorage(metadata, storage) ==
    IF storage.kind = "none" THEN metadata
    ELSE [metadata EXCEPT !["storage"] =
             IF @ = Absent THEN DictExcludeNone(storage) ELSE @]

\* json.dumps(metadata): the text of the column
JsonDumps(value) == [kind |-> "json", value |-> value]

\* json.loads(row.get("metadata") or "{}"), {} when it raises
MetadataOfColumn(column, empty) ==
    IF column.kind = "json" THEN column.value ELSE empty

\* the request bodies tried: metadata with and without a storage entry (null,
\* a string, an object), with and without another key; and the storage config
SubmittedMetadata ==
    [storage : {Absent, Null, StrVal("s3"),
                MapVal([k \in StorageFields |->
                          IF k = "endpoint" THEN StrVal("http://other:9000")
                          ELSE Absent])},
     taskId : {Absent, StrVal("t1")}]

SubmittedStorage ==
    {NoStorage} \cup
    [kind : {"config"},
     fields : [StorageFields -> {Null, StrVal("http://minio:9000")}]]

InsertInputs ==
    [op : {"insert_job"}, service : {"executor", "gateway"},
     metadata : SubmittedMetadata, storage : SubmittedStorage]

\* _insert_job: the metadata column of the new row
InsertJob ==
    /\ call.op = "insert_job" /\ reply = NoReply
    /\ reply' = [kind |-> "row",
                 metadata |-> JsonDumps(MergeStorage(call.metadata, call.storage))]
    /\ UNCHANGED <<jobs, svcVars, workerVars, hist, call>>

\* _get_job_status: the metadata of the response
GetStatusMetadata ==
    /\ reply.kind = "row"
    /\ reply' = [kind |-> "metadata",
                 metadata |->
                    MetadataOfColumn(reply.metadata,
                                     [k \in DOMAIN call.metadata |-> Absent])]
    /\ UNCHANGED <<jobs, svcVars, workerVars, hist, call>>

InsertSpec ==
    FunctionCall(InsertInputs) /\ [][InsertJob \/ GetStatusMetadata]_vars

-----------------------------------------------------------------------------
(* Worker thread: worker_loop, _claim_and_run_next_job, _claim_next_job_id *)

\* variant: no handler around the cycle, the exception ends the thread
WorkerLoopExits(w) == SetWorker(w, "exited", 0, None, NoRet)

\* except Exception as e: processed = False; then time.sleep(5.0)
WorkerOnException(w) == SetWorker(w, "sleep", 0, None, NoRet)

\* the SELECT of _claim_next_job_id; no row: return None
ClaimSelect(w) ==
    /\ wpc[w] = "claim"
    /\ IF SelectCandidates(jobs) = {}
       THEN SetWorker(w, "sleep", 0, None, NoRet)
       ELSE \E j \in SelectCandidates(jobs) : SetWorker(w, "selected", j, None, NoRet)
    /\ UNCHANGED <<jobs, svcVars, hist>>
    /\ UNCHANGED apiVars

\* variant: a claim that affected no row is retried at once, without a sleep
ClaimCommitRetrying(w) ==
    /\ wpc[w] = "selected"
    /\ LET j == wjob[w]
           got == ClaimResult(ClaimRowCount(jobs, j), j)
       IN /\ jobs' = ClaimUpdate(jobs, j)
          /\ IF got = 0
             THEN /\ SetWorker(w, "claim", 0, None, NoRet)
                  /\ hist' = [hist EXCEPT ![j].lost = TRUE]
             ELSE /\ SetWorker(w, "claimed", got, None, NoRet)
                  /\ hist' = [hist EXCEPT ![got].claims = @ + 1,
                                          ![got].claimer = w]
    /\ UNCHANGED svcVars
    /\ UNCHANGED apiVars

\* the conditional UPDATE of _claim_next_job_id and its return; no row
\* affected: return None, and worker_loop sleeps (hist: the race was lost)
ClaimCommit(w) ==
    /\ wpc[w] = "selected"
    /\ LET j == wjob[w]
           got == ClaimResult(ClaimRowCount(jobs, j), j)
       IN /\ jobs' = ClaimUpdate(jobs, j)
          /\ IF got = 0
             THEN /\ SetWorker(w, "sleep", 0, None, NoRet)
                  /\ hist' = [hist EXCEPT ![j].lost = TRUE]
             ELSE /\ SetWorker(w, "claimed", got, None, NoRet)
                  /\ hist' = [hist EXCEPT ![got].claims = @ + 1,
                                          ![got].claimer = w]
    /\ UNCHANGED svcVars
    /\ UNCHANGED apiVars

\* _run_job_sync up to subprocess.run(apply_cmd, ...)
RunJobPrepare(w) ==
    /\ wpc[w] = "claimed"
    /\ LET j == wjob[w] IN
       \E scriptOk \in BOOLEAN :
          IF ~scriptOk
          THEN /\ SetWorker(w, "update", j, None, ScriptMissingResult)
               /\ UNCHANGED hist
          ELSE IF BuildTfvarsRaises(jobs[j])
          THEN /\ WorkerOnException(w)
               /\ UNCHANGED hist
          ELSE /\ SetWorker(w, "applying", j, None, NoRet)
               /\ hist' = [hist EXCEPT ![j].applies = @ + 1,
                                       ![j].applyDir = Some(RunDir(w, j))]
    /\ UNCHANGED <<jobs, svcVars>>
    /\ UNCHANGED apiVars

\* the apply subprocess exits with code e
ApplyReturn(w, e) ==
    /\ wpc[w] = "applying"
    /\ SetWorker(w, "destroy", wjob[w], Some(e), NoRet)
    /\ hist' = [hist EXCEPT ![wjob[w]].exit = Some(e)]
    /\ UNCHANGED <<jobs, svcVars>>
    /\ UNCHANGED apiVars

\* variant: a Popen failure is not caught and leaves _run_job_sync
LaunchDestroyEscalates(w, launched) ==
    /\ wpc[w] = "destroy"
    /\ LET j == wjob[w] IN
       /\ IF launched
          THEN SetWorker(w, "update", j, wexit[w], RunJobResult(wexit[w][1]))
          ELSE WorkerOnException(w)
       /\ hist' = [hist EXCEPT ![j].destroys = @ + 1,
                               ![j].destroyDir = Some(RunDir(w, j)),
                               ![j].destroy = IF launched THEN "launched"
                                              ELSE "launch_failed"]
    /\ UNCHANGED <<jobs, svcVars>>
    /\ UNCHANGED apiVars

\* try: subprocess.Popen(destroy_cmd, ...) except Exception: log; then return
LaunchDestroy(w, launched) ==
    /\ wpc[w] = "destroy"
    /\ LET j == wjob[w] IN
       /\ SetWorker(w, "update", j, wexit[w], RunJobResult(wexit[w][1]))
       /\ hist' = [hist EXCEPT ![j].destroys = @ + 1,
                               ![j].destroyDir = Some(RunDir(w, j)),
                               ![j].destroy = IF launched THEN "launched"
                                              ELSE "launch_failed"]
    /\ UNCHANGED <<jobs, svcVars>>
    /\ UNCHANGED apiVars

\* variant: the loop sleeps after every cycle, also one that ran a job
UpdateAfterRunThenSleep(w) ==
    /\ wpc[w] = "update"
    /\ LET j == wjob[w]
           r == wret[w]
       IN /\ jobs' = UpdateJobAfterRun(jobs, j, r.rc, r.out, r.err,
                                       StatusAfterRun(r.rc))
          /\ hist' = [hist EXCEPT ![j].writes = @ + 1,
                                  ![j].writer = w]
    /\ SetWorker(w, "sleep", 0, None, NoRet)
    /\ UNCHANGED svcVars
    /\ UNCHANGED apiVars

\* _update_job_after_run(job_id, returncode, stdout, stderr, status); return
\* True: processed, so worker_loop goes round without sleeping
UpdateAfterRun(w) ==
    /\ wpc[w] = "update"
    /\ LET j == wjob[w]
           r == wret[w]
       IN /\ jobs' = UpdateJobAfterRun(jobs, j, r.rc, r.out, r.err,
                                       StatusAfterRun(r.rc))
          /\ hist' = [hist EXCEPT ![j].writes = @ + 1,
                                  ![j].writer = w]
    /\ SetWorker(w, "claim", 0, None, NoRet)
    /\ UNCHANGED svcVars
    /\ UNCHANGED apiVars

\* time.sleep(5.0) returns
Wake(w) ==
    /\ wpc[w] = "sleep"
    /\ SetWorker(w, "claim", 0, None, NoRet)
    /\ UNCHANGED <<jobs, svcVars, hist>>
    /\ UNCHANGED apiVars

\* a store call (claim, fetch, update) or a filesystem call of the run raises
RunRaises(w) ==
    /\ wpc[w] \in {"claim", "selected", "claimed", "update"}
    /\ WorkerOnException(w)
    /\ UNCHANGED <<jobs, svcVars, hist>>
    /\ UNCHANGED apiVars

WorkerStep(w) ==
    \/ ClaimSelect(w)
    \/ ClaimCommit(w)
    \/ RunJobPrepare(w)
    \/ \E e \in ExitCodes : ApplyReturn(w, e)
    \/ \E launched \in BOOLEAN : LaunchDestroy(w, launched)
    \/ UpdateAfterRun(w)
    \/ Wake(w)

-----------------------------------------------------------------------------
(* Specifications *)

Next ==
    \/ \E p \in Procs : ServiceStart(p)
    \/ \E p \in Procs : Reconcile(p)
    \/ \E p \in Procs : StartWorkers(p)
    \/ \E p \in Procs : Crash(p)
    \/ \E s \in StorageKinds : Submit(s)
    \/ \E j \in JobIds : KillJob(j)
    \/ \E w \in Workers : WorkerStep(w)
    \/ \E w \in Workers : RunRaises(w)

Spec == Init /\ [][Next]_vars

\* Fair scheduling of the worker threads of a service that stays up with a
\* reachable store: no process death, no failing store or filesystem call,
\* and every started apply returns
FairNext ==
    \/ \E p \in Procs : ServiceStart(p)
    \/ \E p \in Procs : Reconcile(p)
    \/ \E p \in Procs : StartWorkers(p)
    \/ \E s \in StorageKinds : Submit(s)
    \/ \E j \in JobIds : KillJob(j)
    \/ \E w \in Workers : WorkerStep(w)

FairSpec ==
    /\ Init
    /\ [][FairNext]_vars
    /\ \A w \in Workers : WF_vars(WorkerStep(w))

\* The executor service, staying up, with its clients' requests and responses
ApiNext ==
    \/ \E p \in Procs : ServiceStart(p)
    \/ \E p \in Procs : Reconcile(p)
    \/ \E p \in Procs : StartWorkers(p)
    \/ \E s \in StorageKinds : SubmitJobCall(s)
    \/ \E j \in RequestIds : GetJobCall(j)
    \/ \E j \in RequestIds : KillJobCall(j)
    \/ \E w \in Workers : WorkerStep(w)

ApiSpec == Init /\ [][ApiNext]_vars

-----------------------------------------------------------------------------
(* Properties *)

LoopPcs == {"claim", "selected", "claimed", "applying", "destroy", "update", "sleep"}
HoldingPcs == {"claimed", "applying", "destroy", "update"}
Tokens(text) == {text[i] : i \in DOMAIN text}

\* C1: a job_id is returned by at most one successful claim_next call over
\* the whole execution, so no two workers ever hold the same claimed job;
\* of the workers racing for one queued job one gets it and the others none.
C1_ClaimMutualExclusion ==
    /\ \A j \in JobIds : hist[j].claims <= 1
    /\ \A w1, w2 \in Workers :
          (w1 # w2 /\ wpc[w1] \in HoldingPcs /\ wpc[w2] \in HoldingPcs)
             => wjob[w1] # wjob[w2]

\* two workers selected the same queued job, one of them has claimed it
C1_Witness_RaceForOneJob ==
    \E j \in JobIds : \E w1, w2 \in Workers :
        /\ w1 # w2
        /\ wpc[w1] = "claimed" /\ wjob[w1] = j
        /\ wpc[w2] = "selected" /\ wjob[w2] = j
        /\ hist[j].claims = 1

\* C2: a job's status becomes running only by the conditional update of
\* claim_next, and only from queued; no other step produces running.
C2_OnlyClaimSetsRunning ==
    [][\A j \in DOMAIN jobs' :
          (jobs'[j].status = "running" /\ StatusOf(j) # "running")
             => /\ StatusOf(j) = "queued"
                /\ \E w \in Workers :
                      /\ wpc[w] = "selected" /\ wjob[w] = j
                      /\ wpc'[w] = "claimed" /\ wjob'[w] = j]_vars

\* a claimed job is running while its claimant prepares the run
C2_Witness_ClaimedRunning ==
    \E j \in JobIds : \E w \in Workers :
        StatusOf(j) = "running" /\ wpc[w] = "claimed" /\ wjob[w] = j

\* C3: the post-run result of a job is written exactly once, by the worker
\* whose claim returned the job, as a transition out of status running into
\* finished or failed.
C3_PostRunWriteOnceFromRunning ==
    [][\A j \in JobIds :
          hist'[j].writes # hist[j].writes
             => /\ hist[j].writes = 0
                /\ hist'[j].writer = hist[j].claimer
                /\ StatusOf(j) = "running"
                /\ jobs'[j].status \in {"finished", "failed"}]_vars

\* C4: the apply step is started at most once per job_id, whatever submits,
\* claims, apply outcomes, kill requests and restarts with reconciliation occur.
C4_ApplyAtMostOnce == \A j \in JobIds : hist[j].applies <= 1

\* a job whose apply failed is stored as failed and a worker has polled again
C4_Witness_FailedNotRetried ==
    \E j \in JobIds : \E w \in Workers :
        /\ hist[j].applies = 1 /\ hist[j].exit = Some(2)
        /\ StatusOf(j) = "failed" /\ hist[j].writes = 1
        /\ wpc[w] = "sleep"

\* C5: reset_running_jobs_to_failed turns every running job into failed with
\* returncode still null and nothing else changed, returns their number, and
\* leaves every other job as it was.
C5_ReconcileOutcome ==
    [][\A p \in Procs :
          (svc[p] = "starting" /\ svc'[p] = "reconciled")
             => /\ DOMAIN jobs' = DOMAIN jobs
                /\ \A j \in DOMAIN jobs :
                      IF jobs[j].status = "running"
                      THEN /\ jobs'[j] = [jobs[j] EXCEPT !.status = "failed"]
                           /\ jobs'[j].returncode = None
                      ELSE jobs'[j] = jobs[j]
                /\ affected'[p] =
                      Cardinality({j \in DOMAIN jobs : jobs[j].status = "running"})]_vars

\* a reconciliation has just failed a job that a dead worker had claimed
C5_Witness_ReconciledOne ==
    \E p \in Procs : \E j \in JobIds :
        /\ svc[p] = "reconciled" /\ affected[p] = 1
        /\ StatusOf(j) = "failed" /\ jobs[j].returncode = None
        /\ hist[j].claims = 1 /\ hist[j].writes = 0

\* C6: a service has workers only once its start-up reconciliation has
\* finished, and while it serves claims no job that an earlier incarnation
\* of the same service left running is still running.
C6_ReconcileBeforeClaim ==
    \A p \in Procs :
        /\ (\E w \in WorkersOf(p) : wpc[w] # "off") => svc[p] = "up"
        /\ svc[p] = "up" =>
              \A j \in DOMAIN jobs :
                 (/\ jobs[j].status = "running"
                  /\ hist[j].claimer # None
                  /\ ProcOf(hist[j].claimer) = p)
                    => ~hist[j].stale

\* a restarted service serves a claim after it failed its orphaned job
C6_Witness_RestartedServiceClaims ==
    \E p \in Procs : \E j, k \in JobIds : \E w \in WorkersOf(p) :
        /\ svc[p] = "up"
        /\ hist[j].claimer = w /\ hist[j].stale /\ hist[j].writes = 0
        /\ StatusOf(j) = "failed"
        /\ wpc[w] = "claimed" /\ wjob[w] = k

\* C7: under fair scheduling of the worker steps, with the store reachable
\* and every apply returning, every queued job is eventually claimed and
\* eventually finished or failed, kill requests without a pid notwithstanding.
C7_QueuedEventuallyDone ==
    \A j \in JobIds :
        /\ (StatusOf(j) = "queued") ~> (hist[j].claims >= 1)
        /\ (StatusOf(j) = "queued") ~> (StatusOf(j) \in {"finished", "failed"})

\* C8: no worker loop of a running service has exited; every worker can take
\* a further step of its loop, also after a cycle that raised.
C8_WorkerLoopNeverExits ==
    \A w \in Workers :
        svc[ProcOf(w)] = "up" => (wpc[w] \in LoopPcs /\ ENABLED WorkerStep(w))

\* a worker whose cycle raised after its claim has selected another job
C8_Witness_ContinuesAfterException ==
    \E w \in Workers : \E j, k \in JobIds :
        /\ j # k
        /\ hist[j].claimer = w /\ ~hist[j].stale
        /\ StatusOf(j) = "running" /\ hist[j].writes = 0
        /\ wpc[w] = "selected" /\ wjob[w] = k

\* C9: for a job whose apply was run and whose result was stored: apply exit
\* code 0 gives status finished with returncode 0, a nonzero exit code gives
\* status failed, a nonzero returncode and a stderr naming the apply exit code.
C9_ApplyOutcomeMapping ==
    \A j \in DOMAIN jobs :
        (hist[j].writes >= 1 /\ hist[j].exit # None) =>
            IF hist[j].exit[1] = 0
            THEN jobs[j].status = "finished" /\ jobs[j].returncode = Some(0)
            ELSE /\ jobs[j].status = "failed"
                 /\ jobs[j].returncode # None
                 /\ jobs[j].returncode[1] # 0
                 /\ jobs[j].stderr # None
                 /\ ToString(hist[j].exit[1]) \in Tokens(jobs[j].stderr[1])

\* one stored job's apply exited 0 and another's exited 2
C9_Witness_BothOutcomes ==
    \E j, k \in JobIds :
        /\ hist[j].writes = 1 /\ hist[j].exit = Some(0)
        /\ hist[k].writes = 1 /\ hist[k].exit = Some(2)

\* C10: after an apply has returned the worker attempts the launch of the
\* destroy exactly once, for the run directory of the apply, and goes on to
\* record the result whether or not the launch worked; the recording never
\* waits for the destroy, and the stored status and returncode are the ones
\* the apply exit code determines also when the launch failed.
C10_BestEffortDestroy ==
    [][/\ \A j \in JobIds : hist'[j].destroys <= 1
       /\ \A w \in Workers :
             (wpc[w] = "destroy" /\ wpc'[w] # "destroy" /\ svc'[ProcOf(w)] = "up")
                => /\ wpc'[w] = "update" /\ wjob'[w] = wjob[w]
                   /\ hist'[wjob[w]].destroys = 1
                   /\ hist'[wjob[w]].destroyDir = hist[wjob[w]].applyDir
                   /\ jobs' = jobs
       /\ \A w \in Workers : wpc[w] = "update" => ENABLED UpdateAfterRun(w)
       /\ \A j \in JobIds :
             (hist'[j].writes # hist[j].writes /\ hist[j].exit # None)
                => /\ hist[j].destroys = 1
                   /\ jobs'[j].status =
                         (IF hist[j].exit[1] = 0 THEN "finished" ELSE "failed")
                   /\ jobs'[j].returncode =
                         Some(IF hist[j].exit[1] = 0 THEN 0 ELSE 1)]_vars

\* a job whose destroy could not be launched is stored as finished, and the
\* worker that ran it is already running the next job
C10_Witness_LaunchFailedJobFinished ==
    \E j, k \in JobIds : \E w \in Workers :
        /\ j # k
        /\ hist[j].destroy = "launch_failed" /\ hist[j].exit = Some(0)
        /\ StatusOf(j) = "finished" /\ jobs[j].returncode = Some(0)
        /\ hist[j].writer = w
        /\ wpc[w] = "applying" /\ wjob[w] = k

\* C11: a stored job whose status is queued or running has a null
\* returncode, a null stdout and a null stderr.
C11_ResultNullUntilTerminal ==
    \A j \in DOMAIN jobs :
        jobs[j].status \in {"queued", "running"} =>
            /\ jobs[j].returncode = None
            /\ jobs[j].stdout = None
            /\ jobs[j].stderr = None

\* a worker holds the result of a failed apply that it has not stored yet: the
\* job is still running with its result columns null
C11_Witness_ResultNotYetStored ==
    \E j \in JobIds : \E w \in Workers :
        /\ wpc[w] = "update" /\ wjob[w] = j /\ wret[w].rc = 1
        /\ StatusOf(j) = "running"
        /\ jobs[j].returncode = None /\ jobs[j].stdout = None

\* C12: the stdout and stderr that get_status returns are non-null only when
\* the status of the same response is finished, failed or killed (executor
\* service), or one of these or cleaned (gateway); for queued, running and
\* killing both are null whatever the stored columns hold.
C12_OutputOnlyWhenTerminal ==
    (call.op = "get_status" /\ reply.kind = "status") =>
        /\ (reply.stdout # None \/ reply.stderr # None) =>
              reply.status \in
                 (IF call.service = "executor"
                  THEN {"finished", "failed", "killed"}
                  ELSE {"finished", "failed", "killed", "cleaned"})
        /\ reply.status \in {"queued", "running", "killing"} =>
              (reply.stdout = None /\ reply.stderr = None)

\* the gateway answered for a row with status killing that holds output,
\* and the executor for a cleaned row that holds output: both hid it
C12_Witness_StoredOutputHidden ==
    /\ call.op = "get_status" /\ reply.kind = "status"
    /\ call.table[call.arg].stdout # None
    /\ call.table[call.arg].stderr # None
    /\ reply.stdout = None /\ reply.stderr = None
    /\ \/ call.service = "gateway" /\ reply.status = "killing"
       \/ call.service = "executor" /\ reply.status = "cleaned"

\* C13: get_status and request_kill for a job_id that is not in the job table
\* answer NotFound, whatever jobs the table holds, and change no stored job.
C13_UnknownIdNotFound ==
    [][(/\ call'.op \in {"get_status", "kill"}
        /\ <<call', reply'>> # <<call, reply>>
        /\ call'.arg \notin DOMAIN jobs)
          => (reply' = NotFound /\ jobs' = jobs)]_vars

\* a kill request for an id never assigned was answered NotFound while the
\* table holds a running job
C13_Witness_KillUnknownNotFound ==
    /\ call.op = "kill" /\ call.arg \notin DOMAIN jobs
    /\ reply = NotFound
    /\ \E j \in DOMAIN jobs : jobs[j].status = "running"

\* C14: every submit adds exactly one job, under a job_id that was not in
\* the table, with status queued and null returncode, stdout and stderr,
\* answers with that job_id and status queued, and leaves every job that was
\* stored as it was; nothing but a submit adds a job.
C14_SubmitPostcondition ==
    [][/\ (call'.op = "submit" /\ <<call', reply'>> # <<call, reply>>) =>
             \E j \in JobIds \ DOMAIN jobs :
                /\ DOMAIN jobs' = DOMAIN jobs \cup {j}
                /\ jobs'[j].status = "queued"
                /\ jobs'[j].returncode = None
                /\ jobs'[j].stdout = None
                /\ jobs'[j].stderr = None
                /\ reply'.kind = "status"
                /\ reply'.job_id = j /\ reply'.status = "queued"
                /\ \A k \in DOMAIN jobs : jobs'[k] = jobs[k]
       /\ DOMAIN jobs' # DOMAIN jobs =>
             (call'.op = "submit" /\ <<call', reply'>> # <<call, reply>>)]_vars

\* the second submit was answered with job 2, queued, while job 1, submitted
\* before, is stored as finished with its result
C14_Witness_SecondSubmit ==
    /\ call.op = "submit" /\ reply.kind = "status" /\ reply.job_id = 2
    /\ StatusOf(2) = "queued" /\ jobs[2].returncode = None
    /\ StatusOf(1) = "finished" /\ jobs[1].returncode = Some(0)

\* C15: for every resources value that submit accepts, alias names and the
\* absent case included, the resources a later get_status returns are
\* normalize_resources of the submitted value, applied once; both services.
C15_ResourceRoundTrip ==
    reply.kind = "resources" =>
        reply.resources =
           NormalizeFor(call.service, ParseResources(call.service, call.arg))

\* the executor returned gpu 3 and disk 100 for a request that gave them as
\* acceleratornum "3" and disk_size "100"
C15_Witness_AliasesReadBack ==
    /\ reply.kind = "resources" /\ call.service = "executor"
    /\ call.arg.kind = "json"
    /\ call.arg.data["gpu"] = Absent /\ call.arg.data["disk"] = Absent
    /\ call.arg.data["acceleratornum"] = StrVal("3")
    /\ reply.resources.kind = "spec"
    /\ reply.resources.data["gpu"] = IntVal("3")
    /\ reply.resources.data["disk"] = IntVal("100")

\* C16: normalize_resources applied to its own result gives that result
\* again, whether the result is passed as the ResourceSpec or as the dict
\* read back from the store; both services.
C16_NormalizeIdempotent ==
    reply.kind = "renormalized" =>
        reply.resources =
           NormalizeFor(call.service, ParseResources(call.service, call.arg))

\* the gateway normalized, a second time and from the dict, a request whose
\* shape came from acceleratorshape while shape was given too
C16_Witness_GatewayDictAgain ==
    /\ reply.kind = "renormalized" /\ reply.form = "dict"
    /\ call.service = "gateway" /\ call.arg.kind = "json"
    /\ call.arg.data["shape"] = StrVal("A")
    /\ call.arg.data["acceleratorshape"] = StrVal("C")
    /\ call.arg.data["disk_size"] = StrVal("100")
    /\ reply.resources.kind = "spec"
    /\ reply.resources.data["shape"] = StrVal("C")
    /\ reply.resources.data["disk"] = IntVal("100")

C20_GatewayKillOnlyFlipsStatus ==
    [][/\ (/\ call'.op = "kill" /\ call'.service = "gateway"
           /\ <<call', reply'>> # <<call, reply>>
           /\ call'.arg \in DOMAIN jobs)
             => /\ jobs' = [jobs EXCEPT ![call'.arg].status = "killing"]
                /\ reply'.kind = "status" /\ reply'.status = "killing"
       /\ (svc' # svc \/ <<call', reply'>> # <<call, reply>>)
             => \A j \in DOMAIN jobs :
                   jobs[j].status = "killing" =>
                      (j \in DOMAIN jobs' /\ jobs'[j].status = "killing")]_vars

\* a job was killed while a worker ran it, next to a finished job that kept
\* its result; the gateway has gone down and is starting again, and the
\* killed job is still killing
C20_Witness_KilledRunningJob ==
    \E j, k \in DOMAIN jobs :
        /\ j # k
        /\ call.op = "kill" /\ call.service = "gateway" /\ call.arg = j
        /\ reply.kind = "status" /\ reply.status = "killing"
        /\ jobs[j].status = "killing" /\ jobs[j].returncode = None
        /\ hist[j].claims = 1 /\ hist[j].writes = 0
        /\ jobs[k].status = "finished" /\ jobs[k].returncode = Some(0)
        /\ svc[GatewayProc] = "starting"

\* C21: every successful claim_next returns the job that was the queued job
\* with the smallest created_at when it was selected; with a single worker
\* the jobs are claimed in strictly increasing created_at order; and between
\* two queued jobs of equal created_at the selection is determined (the
\* SELECT has one possible answer).
C21_OldestFirstClaimOrder ==
    [][\A w \in Workers :
          /\ (wpc[w] = "claim" /\ wpc'[w] = "selected")
                => /\ StatusOf(wjob'[w]) = "queued"
                   /\ \A k \in DOMAIN jobs :
                         jobs[k].status = "queued"
                            => jobs[wjob'[w]].created_at <= jobs[k].created_at
                   /\ \A k \in DOMAIN jobs :
                         (/\ jobs[k].status = "queued"
                          /\ jobs[k].created_at = jobs[wjob'[w]].created_at)
                            => k = wjob'[w]
          /\ (/\ wpc[w] = "selected" /\ wpc'[w] = "claimed"
              /\ \A k \in JobIds : hist[k].claims >= 1 => hist[k].claimer = w)
                => \A k \in JobIds :
                      hist[k].claims >= 1
                         => jobs[k].created_at < jobs[wjob'[w]].created_at]_vars

\* C22: in a service with N workers each worker holds at most one claimed
\* job whose result is not recorded, so at most N applies of that service
\* are in flight and, from its reconciliation to its next restart, at most N
\* of the jobs its workers claimed have status running.
C22_PoolBoundsParallelism ==
    \A p \in Procs :
        svc[p] \in {"reconciled", "up"} =>
            /\ \A w \in WorkersOf(p) :
                  Cardinality({j \in DOMAIN jobs :
                                  /\ hist[j].claimer = w
                                  /\ jobs[j].status = "running"
                                  /\ hist[j].writes = 0}) <= 1
            /\ Cardinality({j \in DOMAIN jobs :
                               /\ hist[j].claimer \in WorkersOf(p)
                               /\ hist[j].applies = 1
                               /\ hist[j].exit = None
                               /\ ~hist[j].stale}) <= EXECUTOR_WORKERS
            /\ Cardinality({j \in DOMAIN jobs :
                               /\ hist[j].claimer \in WorkersOf(p)
                               /\ jobs[j].status = "running"})
                  <= EXECUTOR_WORKERS

\* C23: once a job's stored status is finished, failed or killed, no worker
\* step (the conditional update of claim_next, the post-run update) changes
\* that job's status, whatever kill requests and reconciliations of other
\* service processes are interleaved with the worker cycles.
C23_TerminalStableAgainstWorkers ==
    [][\A w \in Workers :
          (wpc[w] \in {"selected", "update"} /\ wpc'[w] # wpc[w])
             => \A j \in DOMAIN jobs :
                   jobs[j].status \in {"finished", "failed", "killed"}
                      => jobs'[j].status = jobs[j].status]_vars

\* C24: with several service processes on one store, a startup
\* reconciliation never moves to failed a job that a live worker of another
\* process has claimed and is applying; every job it fails belongs to a
\* worker that no longer exists.
C24_ReconcileOnlyOrphans ==
    [][\A p \in Procs :
          (svc[p] = "starting" /\ svc'[p] = "reconciled")
             => \A j \in DOMAIN jobs :
                   (jobs[j].status = "running" /\ jobs'[j].status = "failed")
                      => ~ \E w \in Workers :
                              wpc[w] \in HoldingPcs /\ wjob[w] = j]_vars

\* C25: a claim_next call whose conditional update affects no row, because
\* another claimant changed the selected row first, returns none available
\* without selecting another candidate, even if other jobs are queued, and
\* leaves the store unchanged; the losing worker sleeps before its next
\* attempt.
C25_LostClaimRace ==
    [][\A w \in Workers :
          (/\ wpc[w] = "selected"
           /\ StatusOf(wjob[w]) # "queued"
           /\ wpc'[w] \notin {"selected", "off"})
             => /\ jobs' = jobs
                /\ wpc'[w] = "sleep"
                /\ wjob'[w] = 0
                /\ \A j \in JobIds : hist'[j].claims = hist[j].claims]_vars

\* a worker lost the race for a job another worker holds and sleeps, while
\* another job is queued and unclaimed
C25_Witness_LoserSleepsWithQueuedJob ==
    \E j, k \in DOMAIN jobs : \E w1, w2 \in Workers :
        /\ j # k /\ w1 # w2
        /\ hist[j].lost /\ hist[j].claimer = w1
        /\ wpc[w1] \in HoldingPcs /\ wjob[w1] = j
        /\ wpc[w2] = "sleep" /\ wjob[w2] = 0
        /\ jobs[k].status = "queued" /\ hist[k].claims = 0 /\ ~hist[k].lost

\* C26: in every worker a cycle that claimed a job and recorded its result
\* is followed directly by the next claim attempt, with no sleep in between;
\* a cycle that found no job, lost its claim or raised is followed by one
\* idle sleep, and the sleep by the next claim attempt.
C26_PollingCadence ==
    [][\A w \in Workers :
          (wpc'[w] # wpc[w] /\ wpc'[w] # "off") =>
             /\ (wpc[w] = "update" /\ hist'[wjob[w]].writes # hist[wjob[w]].writes)
                   => wpc'[w] = "claim"
             /\ (wpc[w] = "claim" /\ SelectCandidates(jobs) = {})
                   => wpc'[w] = "sleep"
             /\ (wpc[w] = "selected" /\ StatusOf(wjob[w]) # "queued")
                   => wpc'[w] = "sleep"
             /\ (wpc[w] = "claimed" /\ wpc'[w] \notin {"applying", "update"})
                   => wpc'[w] = "sleep"
             /\ wpc[w] = "sleep" => wpc'[w] = "claim"
             /\ wpc'[w] = "claim"
                   => \/ wpc[w] \in {"sleep", "off"}
                      \/ /\ wpc[w] = "update"
                         /\ hist'[wjob[w]].writes # hist[wjob[w]].writes
             /\ wpc'[w] = "sleep"
                   => /\ wpc[w] \in {"claim", "selected", "claimed", "update"}
                      /\ \A j \in JobIds : hist'[j].writes = hist[j].writes]_vars

\* one worker has recorded a job's result and is at its next claim attempt
\* with a job waiting, another worker found nothing to claim and sleeps
C26_Witness_BackToClaimAndIdleSleep ==
    \E j, k \in DOMAIN jobs : \E w1, w2 \in Workers :
        /\ j # k /\ w1 # w2
        /\ hist[j].writes = 1 /\ hist[j].writer = w1
        /\ jobs[j].status \in {"finished", "failed"}
        /\ wpc[w1] = "selected" /\ wjob[w1] = k /\ jobs[k].status = "queued"
        /\ wpc[w2] = "sleep"

\* C27: gateway normalize_resources, on a parsed submit payload and on a
\* plain dict alike, gives as accelerator count the value of accelerator if
\* the caller supplied it, else that of gpu if supplied, else that of
\* acceleratornum if supplied, else 0; a value that cannot be made an
\* integer gives 0.
C27_AcceleratorPrecedence ==
    (call.op = "normalize_resources" /\ reply.kind = "spec") =>
        LET supplied(k) == call.arg[k] \notin {Absent, Null}
            raw == IF supplied("accelerator") THEN call.arg["accelerator"]
                   ELSE IF supplied("gpu") THEN call.arg["gpu"]
                   ELSE IF supplied("acceleratornum") THEN call.arg["acceleratornum"]
                   ELSE IntVal("0")
            count == IF raw.type = "int" \/ raw.text \in NumericTexts
                     THEN IntVal(raw.text) ELSE IntVal("0")
        IN reply.data["accelerator"] = count

\* C28: for each of shape, cpu, ram and boot disk the configuration that
\* build_tfvars generates has the job's stored resource value when it is
\* present and valid (ram after normalize_ram_gb) and the default of the
\* process otherwise; a job with no resources, with stored resources that do
\* not parse, or with a ram that is no number or not positive gets the
\* defaults, and build_tfvars does not raise on such a job.
C28_FallbackPrecedence ==
    (call.op = "build_tfvars" /\ reply # NoReply) =>
        LET r == call.arg.resources
            isInt(v) == v.type = "int" \/ (v.type = "str" /\ v.text \in NumericTexts)
            missing(v) == v \in {Absent, Null}
            parses ==
                /\ r.kind = "dict"
                /\ \A k \in {"cpu", "ram", "disk", "disk_size"} :
                      missing(r.data[k]) \/ isInt(r.data[k])
                /\ missing(r.data["shape"]) \/ r.data["shape"].type = "str"
            disk == IF ~missing(r.data["disk"]) THEN r.data["disk"]
                    ELSE r.data["disk_size"]
            badRam == \/ missing(r.data["ram"])
                      \/ r.data["ram"].text \in {"-1", "0"}
        IN /\ ~parses =>
                /\ reply.kind = "tfvars"
                /\ reply.shape = DEFAULT_SHAPE
                /\ reply.ocpus = DEFAULT_OCPU
                /\ reply.memory_gbs = DEFAULT_MEMORY_IN_GB
                /\ reply.image_boot_size = DEFAULT_BOOTDISK_IN_GB
           /\ (parses /\ badRam) =>
                /\ reply.kind = "tfvars"
                /\ reply.memory_gbs = DEFAULT_MEMORY_IN_GB
           /\ (parses /\ reply.kind = "tfvars") =>
                /\ reply.shape =
                      IF missing(r.data["shape"]) \/ r.data["shape"].text = ""
                      THEN DEFAULT_SHAPE ELSE r.data["shape"].text
                /\ reply.ocpus =
                      IF missing(r.data["cpu"]) THEN DEFAULT_OCPU
                      ELSE IntOf(r.data["cpu"].text)
                /\ reply.image_boot_size =
                      IF missing(disk) THEN DEFAULT_BOOTDISK_IN_GB
                      ELSE IntOf(disk.text)
                /\ reply.memory_gbs =
                      IF badRam THEN DEFAULT_MEMORY_IN_GB
                      ELSE NormalizeRamGb(WideIntOf(r.data["ram"].text)).value

\* C29: once a job is inserted, no operation (claim, post-run update, kill
\* request, reconciliation, get_status, a further submit) changes its
\* job_id, command, workdir, env, metadata or resources, and no operation
\* removes a job from the store.
C29_SubmissionFieldsImmutable ==
    [][\A j \in DOMAIN jobs :
          /\ j \in DOMAIN jobs'
          /\ jobs'[j].command = jobs[j].command
          /\ jobs'[j].workdir = jobs[j].workdir
          /\ jobs'[j].env = jobs[j].env
          /\ jobs'[j].storage = jobs[j].storage
          /\ jobs'[j].resources = jobs[j].resources]_vars

\* a job that was claimed, applied and given its result is read by
\* get_status and still has what was submitted, and a job with another
\* metadata is in the store
C29_Witness_FinishedJobAsSubmitted ==
    \E j, k \in DOMAIN jobs :
        /\ j # k
        /\ call.op = "get_status" /\ call.arg = j
        /\ reply.kind = "status" /\ reply.status = "finished"
        /\ hist[j].claims = 1 /\ hist[j].applies = 1 /\ hist[j].writes = 1
        /\ jobs[j].command = "bash .command.run" /\ jobs[j].workdir = "/work"
        /\ jobs[j].env = "{}" /\ jobs[j].resources = "{}"
        /\ jobs[j].storage = "mapping"
        /\ jobs[k].storage = "scalar"

\* C30: for a submit that carries a storage config S, the metadata stored for
\* the job, and returned by get_status, has under storage the fields of S
\* that are not null, and every other key as the caller submitted it; for a
\* submit without storage the stored metadata is the submitted metadata.
C30_StorageMergeAtInsert ==
    (call.op = "insert_job" /\ reply.kind \in {"row", "metadata"}) =>
        LET stored == IF reply.kind = "row" THEN reply.metadata.value
                      ELSE reply.metadata
        IN IF call.storage.kind = "none"
           THEN stored = call.metadata
           ELSE /\ stored["storage"].type = "map"
                /\ \A k \in StorageFields :
                      stored["storage"].fields[k] =
                         IF call.storage.fields[k] = Null THEN Absent
                         ELSE call.storage.fields[k]
                /\ \A k \in DOMAIN call.metadata \ {"storage"} :
                      stored[k] = call.metadata[k]

\* C31: queued is written only by the insert of a new job: no step gives the
\* status queued to a stored job whose status is not queued, so a job that
\* has left queued (by a claim, a kill or any other update) is never queued
\* again, and a job that was claimed is not among the rows the SELECT of
\* claim_next can return.
C31_NoWayBackToQueued ==
    [][\A j \in DOMAIN jobs' :
          /\ jobs'[j].status = "queued"
                => (j \notin DOMAIN jobs \/ jobs[j].status = "queued")
          /\ hist'[j].claims >= 1
                => (jobs'[j].status # "queued" /\ j \notin SelectCandidates(jobs'))]_vars

\* a job failed by a reconciliation and a job whose failed run was recorded
\* are both out of the queue, and a worker that polled found nothing to claim
C31_Witness_FailedJobsNotRequeued ==
    \E j, k \in DOMAIN jobs : \E w \in Workers :
        /\ j # k
        /\ jobs[j].status = "failed" /\ hist[j].claims = 1 /\ hist[j].writes = 0
        /\ jobs[k].status = "failed" /\ hist[k].writes = 1
        /\ jobs[k].returncode = Some(1)
        /\ SelectCandidates(jobs) = {}
        /\ wpc[w] = "sleep"

=============================================================================
